---- MODULE Spec2Model ----
(***************************************************************************)
(* Model of the pinocchio escrow program: the account validators of        *)
(* helpers.rs, the Escrow record of state.rs and the three handlers Make,  *)
(* Take and Refund of instructions/.  One action is one whole invocation:  *)
(* the runtime commits the handler's changes when it returns Ok and        *)
(* discards them when it returns an error.                                 *)
(*                                                                         *)
(* Addresses and seeds are byte strings (sequences of naturals).  The      *)
(* SHA-256 of the derivation is modelled as a collision-free hash: the     *)
(* derived address is the hash input itself, every seed kept with its      *)
(* length (the real seeds have fixed lengths 6, 32, 8 and 1, so their      *)
(* concatenation determines the seed list).                                *)
(***************************************************************************)
EXTENDS Integers, Sequences, FiniteSets, TLC

\* accounts: every account of the ledger the model knows, by address.
\* last:     the invocation just run (its inputs, its result, the accounts
\*           it ran on and whether it had changed any account when it
\*           returned), or Idle between invocations.
\* settled:  history, the record addresses closed by a Take or a Refund.
\* payouts:  history, per record address the successful settlements since a
\*           Make last created a record there.
\* deposited: history, per record address the amount Make put into the
\*           vault of the record that is open there (0 when none is).
VARIABLES accounts, last, settled, payouts, deposited

vars == <<accounts, last, settled, payouts, deposited>>

(* ------------------------------ bounds -------------------------------- *)
\* Seeds a Make payload may carry: 0..MaxSeed.
MaxSeed == 1
\* Amounts a Make payload may carry (receive, amount): 0..MaxAmount.
MaxAmount == 2

(* ------------------------- program identities ------------------------- *)
SYSTEM_ID == <<0>>
Alice == <<1>>
Bob == <<2>>
MintA == <<3>>
MintB == <<4>>
TOKEN_ID == <<5>>
TOKEN_2022_PROGRAM_ID == <<6>>
ATA_ID == <<7>>
ID == <<8>>
ESCROW_TAG == <<9>>
PDA_MARKER == <<11>>

Wallets == {Alice, Bob}
Mints == {MintA, MintB}
Seeds == 0..MaxSeed

U8_MAX == 255
MINT_LEN == 82
TOKEN_ACCOUNT_LEN == 165
TOKEN_2022_ACCOUNT_DISCRIMINATOR_OFFSET == 165
TOKEN_2022_MINT_DISCRIMINATOR == 1
TOKEN_2022_TOKEN_ACCOUNT_DISCRIMINATOR == 2

(* ------------------------------ state.rs ------------------------------ *)
\* Escrow::LEN, the sum of the field sizes.
EscrowLEN == 8 + 32 + 32 + 32 + 8 + 1

\* size_of::<Escrow>() of the #[repr(C)] struct: the fields in declaration
\* order (u64 at 0, three 32-byte addresses of alignment 1, u64 at 104,
\* [u8; 1] at 112), the total rounded up to the struct's alignment, the
\* alignment of u64.
AlignUp(n, a) == ((n + a - 1) \div a) * a
SizeOfEscrow == AlignUp(8 + 32 + 32 + 32 + 8 + 1, 8)

ZeroAddress == <<0>>
ZeroEscrow ==
    [seed |-> 0, maker |-> ZeroAddress, mint_a |-> ZeroAddress,
     mint_b |-> ZeroAddress, receive |-> 0, bump |-> 0]
ZeroToken == [mint |-> ZeroAddress, owner |-> ZeroAddress, amount |-> 0]

\* Escrow::load / Escrow::load_mut: the exact-length test before the cast.
EscrowLoad(len) == IF len # EscrowLEN THEN "InvalidAccountData" ELSE "Ok"

\* A set_inner that stores the two mints in each other's field.
SetInner_SwappedMints(seed, maker, mint_a, mint_b, receive, bump) ==
    [seed |-> seed, maker |-> maker, mint_a |-> mint_b, mint_b |-> mint_a,
     receive |-> receive, bump |-> bump]

\* Escrow::set_inner.
SetInner(seed, maker, mint_a, mint_b, receive, bump) ==
    [seed |-> seed, maker |-> maker, mint_a |-> mint_a, mint_b |-> mint_b,
     receive |-> receive, bump |-> bump]

(* ------------------------- address derivation ------------------------- *)
RECURSIVE ConcatSeeds(_)
ConcatSeeds(seeds) ==
    IF seeds = <<>> THEN <<>>
    ELSE <<Len(Head(seeds))>> \o Head(seeds) \o ConcatSeeds(Tail(seeds))

RECURSIVE SumBytes(_)
SumBytes(s) == IF s = <<>> THEN 0 ELSE Head(s) + SumBytes(Tail(s))

\* u64::to_le_bytes: eight bytes, least significant first.
RECURSIVE LeBytes(_, _)
LeBytes(n, k) == IF k = 0 THEN <<>> ELSE <<n % 256>> \o LeBytes(n \div 256, k - 1)
U64LeBytes(n) == LeBytes(n, 8)

\* The hash of the seeds, the program id and the derivation marker.
HashInput(seeds, program_id) == ConcatSeeds(seeds) \o program_id \o PDA_MARKER

\* Whether the hash is a point of the curve (then it is no derived address):
\* a fixed function of the hash that rejects about one input in three.
OnCurve(h) == (SumBytes(h) + Len(h)) % 3 = 0

\* Address::create_program_address: no search, fails on a curve point.
CreateProgramAddress(seeds, program_id) ==
    LET h == HashInput(seeds, program_id)
    IN  IF OnCurve(h) THEN [ok |-> FALSE, addr |-> ZeroAddress]
        ELSE [ok |-> TRUE, addr |-> h]

\* Address::find_program_address: appends a bump seed, searched downwards
\* from 255, and returns the first derivation off the curve.
RECURSIVE FindFrom(_, _, _)
FindFrom(seeds, program_id, b) ==
    LET r == CreateProgramAddress(Append(seeds, <<b>>), program_id)
    IN  IF r.ok THEN [addr |-> r.addr, bump |-> b]
        ELSE IF b = 0 THEN [addr |-> ZeroAddress, bump |-> 0]
        ELSE FindFrom(seeds, program_id, b - 1)
FindProgramAddress(seeds, program_id) == FindFrom(seeds, program_id, U8_MAX)

\* The seeds Make derives the escrow record from.
EscrowSeeds(maker, seed) == <<ESCROW_TAG, maker, U64LeBytes(seed)>>
\* The seeds of the signer proof: the derivation seeds and the bump.
EscrowSignerSeeds(maker, seed, bump) == Append(EscrowSeeds(maker, seed), <<bump>>)

EscrowPda(maker, seed) == FindProgramAddress(EscrowSeeds(maker, seed), ID)
AtaPda(authority, token_program, mint) ==
    FindProgramAddress(<<authority, token_program, mint>>, ATA_ID)

(* --------------------------- account universe -------------------------- *)
EscrowAddrs == {EscrowPda(w, s).addr : w \in Wallets, s \in Seeds}
Authorities == Wallets \cup EscrowAddrs
AtaAddrs == {AtaPda(a, TOKEN_ID, m).addr : a \in Authorities, m \in Mints}
Addrs == Wallets \cup Mints \cup EscrowAddrs \cup AtaAddrs

Ata(authority, mint) == AtaPda(authority, TOKEN_ID, mint).addr

EmptyAccount ==
    [owner |-> SYSTEM_ID, lamports |-> 0, len |-> 0,
     esc |-> ZeroEscrow, tok |-> ZeroToken]

\* Rent::try_minimum_balance, in units that keep the balances small.
MinimumBalance(space) == 1 + space \div 100

(* ----------------------- validators (helpers.rs) ----------------------- *)
\* The first error of a list of results, in the order the code runs them.
RECURSIVE FirstErr(_)
FirstErr(rs) ==
    IF rs = <<>> THEN "Ok"
    ELSE IF Head(rs) # "Ok" THEN Head(rs) ELSE FirstErr(Tail(rs))

\* A signer check that accepts every account.
SignerAccountCheck_NoCheck(is_signer) == "Ok"

\* SignerAccount::check.
SignerAccountCheck(is_signer) ==
    IF ~is_signer THEN "MissingRequiredSignature" ELSE "Ok"

\* MintInterface::check on an account with this owner, data length and
\* byte at offset 165 (read only where the code reads it).
MintInterfaceCheck(owner, len, byte165) ==
    IF owner = TOKEN_2022_PROGRAM_ID
    THEN IF len # MINT_LEN
         THEN IF len < TOKEN_2022_ACCOUNT_DISCRIMINATOR_OFFSET
              THEN "EscrowError::InvalidAccountData"
              ELSE IF len <= TOKEN_2022_ACCOUNT_DISCRIMINATOR_OFFSET
              THEN "Panic"
              ELSE IF byte165 # TOKEN_2022_MINT_DISCRIMINATOR
              THEN "EscrowError::InvalidAccountData"
              ELSE "Ok"
         ELSE "Ok"
    ELSE IF owner # TOKEN_ID THEN "EscrowError::InvalidOwner"
    ELSE IF len # MINT_LEN THEN "EscrowError::InvalidAccountData"
    ELSE "Ok"

\* Whether MintInterface::check indexes the data at offset 165.
MintInterfaceReads165(owner, len) ==
    /\ owner = TOKEN_2022_PROGRAM_ID
    /\ len # MINT_LEN
    /\ ~(len < TOKEN_2022_ACCOUNT_DISCRIMINATOR_OFFSET)

\* Whether TokenAccountInterface::check indexes the data at offset 165.
TokenAccountInterfaceReads165(owner, len) ==
    /\ owner = TOKEN_2022_PROGRAM_ID
    /\ len # TOKEN_ACCOUNT_LEN
    /\ ~(len <= TOKEN_2022_ACCOUNT_DISCRIMINATOR_OFFSET)

\* TokenAccountInterface::check.
TokenAccountInterfaceCheck(owner, len, byte165) ==
    IF owner # TOKEN_2022_PROGRAM_ID
    THEN IF owner # TOKEN_ID THEN "EscrowError::InvalidOwner"
         ELSE IF len # TOKEN_ACCOUNT_LEN THEN "EscrowError::InvalidAccountData"
         ELSE "Ok"
    ELSE IF len # TOKEN_ACCOUNT_LEN
         THEN IF len <= TOKEN_2022_ACCOUNT_DISCRIMINATOR_OFFSET
              THEN "EscrowError::InvalidAccountData"
              ELSE IF byte165 # TOKEN_2022_TOKEN_ACCOUNT_DISCRIMINATOR
              THEN "EscrowError::InvalidAccountData"
              ELSE "Ok"
         ELSE "Ok"

\* The byte at offset 165 of an account of the model: the accounts of the
\* model carry no extension data.
Byte165(a) == 0

MintCheck(acc, mint) ==
    MintInterfaceCheck(acc[mint].owner, acc[mint].len, Byte165(acc[mint]))

\* AssociatedTokenAccount::check.
AssociatedTokenAccountCheck(acc, account, authority, mint, token_program) ==
    LET shape == TokenAccountInterfaceCheck(acc[account].owner, acc[account].len,
                                            Byte165(acc[account]))
    IN  IF shape # "Ok" THEN shape
        ELSE IF AtaPda(authority, token_program, mint).addr # account
        THEN "EscrowError::InvalidAddress"
        ELSE "Ok"

\* ProgramAccount::check.
ProgramAccountCheck(owner, len) ==
    IF owner # ID THEN "EscrowError::InvalidOwner"
    ELSE IF len # EscrowLEN THEN "EscrowError::InvalidAccountData"
    ELSE "Ok"

(* ------------------------ external collaborators ----------------------- *)
\* A handler's progress: the first error so far and the accounts as changed
\* so far.
Ctx(err, acc) == [err |-> err, acc |-> acc]

\* The addresses a signer proof built from these seeds signs for.
PdaSigners(signer_seeds) ==
    LET r == CreateProgramAddress(signer_seeds, ID)
    IN  IF r.ok THEN {r.addr} ELSE {}

\* A CreateAccount that does not look whether the new address is in use.
SystemCreateAccount_NoInUseCheck(acc, from, to, lamports, space, owner, signers) ==
    IF from \notin signers \/ to \notin signers
    THEN Ctx("MissingRequiredSignature", acc)
    ELSE IF acc[from].lamports < lamports
    THEN Ctx("InsufficientFunds", acc)
    ELSE Ctx("Ok",
             [acc EXCEPT ![from].lamports = @ - lamports,
                         ![to] = [owner |-> owner, lamports |-> lamports,
                                  len |-> space, esc |-> ZeroEscrow,
                                  tok |-> ZeroToken]])

\* System program, CreateAccount: both accounts sign, the new address is
\* unused, the payer can fund it.
SystemCreateAccount(acc, from, to, lamports, space, owner, signers) ==
    IF from \notin signers \/ to \notin signers
    THEN Ctx("MissingRequiredSignature", acc)
    ELSE IF acc[to].lamports > 0 \/ acc[to].len > 0 \/ acc[to].owner # SYSTEM_ID
    THEN Ctx("AccountAlreadyInUse", acc)
    ELSE IF acc[from].lamports < lamports
    THEN Ctx("InsufficientFunds", acc)
    ELSE Ctx("Ok",
             [acc EXCEPT ![from].lamports = @ - lamports,
                         ![to] = [owner |-> owner, lamports |-> lamports,
                                  len |-> space, esc |-> ZeroEscrow,
                                  tok |-> ZeroToken]])

\* Associated-token-account program, Create: the account is the derived
\* holding account of (wallet, token program, mint) and does not exist yet.
AtaCreate(acc, payer, account, wallet, mint, token_program, signers) ==
    IF AtaPda(wallet, token_program, mint).addr # account
    THEN Ctx("InvalidSeeds", acc)
    ELSE IF acc[account].owner # SYSTEM_ID
    THEN Ctx("IllegalOwner", acc)
    ELSE IF acc[mint].owner # token_program \/ acc[mint].len # MINT_LEN
    THEN Ctx("InvalidMint", acc)
    ELSE IF payer \notin signers
    THEN Ctx("MissingRequiredSignature", acc)
    ELSE IF acc[payer].lamports < MinimumBalance(TOKEN_ACCOUNT_LEN)
    THEN Ctx("InsufficientFunds", acc)
    ELSE Ctx("Ok",
             [acc EXCEPT ![payer].lamports = @ - MinimumBalance(TOKEN_ACCOUNT_LEN),
                         ![account] =
                             [owner |-> token_program,
                              lamports |-> MinimumBalance(TOKEN_ACCOUNT_LEN),
                              len |-> TOKEN_ACCOUNT_LEN, esc |-> ZeroEscrow,
                              tok |-> [mint |-> mint, owner |-> wallet,
                                       amount |-> 0]]])

IsTokenAccount(a) == a.owner = TOKEN_ID /\ a.len = TOKEN_ACCOUNT_LEN

\* A Transfer that credits the destination and debits no one.
TokenTransfer_NoDebit(acc, from, to, authority, amount, signers) ==
    IF ~IsTokenAccount(acc[from]) \/ ~IsTokenAccount(acc[to])
    THEN Ctx("IncorrectProgramId", acc)
    ELSE IF acc[from].tok.amount < amount
    THEN Ctx("InsufficientFunds", acc)
    ELSE IF authority \notin signers
    THEN Ctx("MissingRequiredSignature", acc)
    ELSE Ctx("Ok", [acc EXCEPT ![to].tok.amount = @ + amount])

\* Token program, Transfer.
TokenTransfer(acc, from, to, authority, amount, signers) ==
    IF ~IsTokenAccount(acc[from]) \/ ~IsTokenAccount(acc[to])
    THEN Ctx("IncorrectProgramId", acc)
    ELSE IF acc[from].tok.amount < amount
    THEN Ctx("InsufficientFunds", acc)
    ELSE IF acc[from].tok.mint # acc[to].tok.mint
    THEN Ctx("MintMismatch", acc)
    ELSE IF acc[from].tok.owner # authority
    THEN Ctx("OwnerMismatch", acc)
    ELSE IF authority \notin signers
    THEN Ctx("MissingRequiredSignature", acc)
    ELSE IF from = to THEN Ctx("Ok", acc)
    ELSE Ctx("Ok", [acc EXCEPT ![from].tok.amount = @ - amount,
                               ![to].tok.amount = @ + amount])

\* Token program, CloseAccount: only an empty holding account closes; its
\* backing value goes to the destination and the address is released.
TokenCloseAccount(acc, account, destination, authority, signers) ==
    IF ~IsTokenAccount(acc[account])
    THEN Ctx("IncorrectProgramId", acc)
    ELSE IF account = destination
    THEN Ctx("InvalidAccountData", acc)
    ELSE IF acc[account].tok.amount # 0
    THEN Ctx("NonNativeHasBalance", acc)
    ELSE IF acc[account].tok.owner # authority
    THEN Ctx("OwnerMismatch", acc)
    ELSE IF authority \notin signers
    THEN Ctx("MissingRequiredSignature", acc)
    ELSE Ctx("Ok", [acc EXCEPT ![destination].lamports = @ + acc[account].lamports,
                               ![account] = EmptyAccount])

(* ------------------- custody lifecycle (helpers.rs) -------------------- *)
\* AssociatedTokenAccount::init.
AssociatedTokenAccountInit(acc, account, mint, payer, owner, token_program, signers) ==
    AtaCreate(acc, payer, account, owner, mint, token_program, signers)

\* An init_if_needed that creates without looking.
AssociatedTokenAccountInitIfNeeded_Always(acc, account, mint, payer, owner, token_program, signers) ==
    AssociatedTokenAccountInit(acc, account, mint, payer, owner,
                               token_program, signers)

\* The Create calls init_if_needed issues: none in the Ok arm of the match,
\* one in the Err arm.
InitIfNeededCalls(acc, account, mint, owner, token_program) ==
    IF AssociatedTokenAccountCheck(acc, account, owner, mint, token_program) = "Ok"
    THEN 0 ELSE 1

\* AssociatedTokenAccount::init_if_needed.
AssociatedTokenAccountInitIfNeeded(acc, account, mint, payer, owner, token_program, signers) ==
    IF AssociatedTokenAccountCheck(acc, account, owner, mint, token_program) = "Ok"
    THEN Ctx("Ok", acc)
    ELSE AssociatedTokenAccountInit(acc, account, mint, payer, owner,
                                    token_program, signers)

\* ProgramAccount::init: creates the record with this much space, owned by
\* this program, signed for by the derivation seeds.
ProgramAccountInit(acc, payer, account, signer_seeds, space, signers) ==
    SystemCreateAccount(acc, payer, account, MinimumBalance(space), space, ID,
                        signers \cup PdaSigners(signer_seeds))

\* A close that moves the backing value out and leaves the record in place.
ProgramAccountClose_KeepsRecord(acc, account, destination) ==
    IF acc[account].len = 0 THEN Ctx("Panic", acc)
    ELSE Ctx("Ok", [acc EXCEPT ![destination].lamports = @ + acc[account].lamports,
                               ![account].lamports = 0])

\* A close that releases the record without crediting anyone.
ProgramAccountClose_NoCredit(acc, account, destination) ==
    IF acc[account].len = 0 THEN Ctx("Panic", acc)
    ELSE Ctx("Ok", [acc EXCEPT ![account] = EmptyAccount])

\* A close that returns Ok and does nothing.
ProgramAccountClose_NoOp(acc, account, destination) == Ctx("Ok", acc)

\* ProgramAccount::close: sentinel in byte 0 (the data must not be empty),
\* backing value to the destination, shrink to one byte, close.
ProgramAccountClose(acc, account, destination) ==
    IF acc[account].len = 0 THEN Ctx("Panic", acc)
    ELSE Ctx("Ok", [acc EXCEPT ![destination].lamports = @ + acc[account].lamports,
                               ![account] = EmptyAccount])

(* ------------------------------- Make ---------------------------------- *)
\* The accounts MakeAccounts names, and the length of the list the pattern
\* of MakeAccounts::try_from matches (it ends in one more, unnamed, element).
MAKE_ROLES == 8
MAKE_ACCOUNTS == 9
MAKE_DATA_LEN == 24

\* The space of the record Make creates.  The call in Make::try_from passes
\* Escrow::LEN; ProgramAccount::init takes no such argument and allocates
\* size_of::<T>().  The two disagree, and either may be what runs.
RecordSpaces == {EscrowLEN, SizeOfEscrow}

TxSigners(who, signed) == IF signed THEN {who} ELSE {}

\* MakeAccounts::try_from.
MakeAccountsTryFrom(acc, a) ==
    IF a.n # MAKE_ACCOUNTS THEN "NotEnoughAccountKeys"
    ELSE FirstErr(<<SignerAccountCheck(a.signed),
                    MintCheck(acc, a.mint_a),
                    MintCheck(acc, a.mint_b),
                    AssociatedTokenAccountCheck(acc, a.maker_ata_a, a.maker,
                                                a.mint_a, a.token_program)>>)

\* A payload parse without the zero-amount rejection.
MakeInstructionDataTryFrom_NoZeroCheck(data_len, amount) ==
    IF data_len # MAKE_DATA_LEN THEN "InvalidInstructionData" ELSE "Ok"

\* MakeInstructionData::try_from.
MakeInstructionDataTryFrom(data_len, amount) ==
    IF data_len # MAKE_DATA_LEN THEN "InvalidInstructionData"
    ELSE IF amount = 0 THEN "InvalidInstructionData"
    ELSE "Ok"

\* u64::from_le_bytes.
RECURSIVE U64FromLeBytes(_)
U64FromLeBytes(bytes) ==
    IF bytes = <<>> THEN 0 ELSE Head(bytes) + 256 * U64FromLeBytes(Tail(bytes))

\* A parse that reads receive and amount in each other's place.
MakeInstructionDataParse_Swapped(data) ==
    IF Len(data) # MAKE_DATA_LEN
    THEN [err |-> "InvalidInstructionData", seed |-> 0, receive |-> 0, amount |-> 0]
    ELSE [err |-> MakeInstructionDataTryFrom(Len(data),
                      U64FromLeBytes(SubSeq(data, 9, 16))),
          seed |-> U64FromLeBytes(SubSeq(data, 1, 8)),
          receive |-> U64FromLeBytes(SubSeq(data, 17, 24)),
          amount |-> U64FromLeBytes(SubSeq(data, 9, 16))]

\* MakeInstructionData::try_from on the bytes of the payload: the length,
\* then the three fields, then the amount.
MakeInstructionDataParse(data) ==
    IF Len(data) # MAKE_DATA_LEN
    THEN [err |-> "InvalidInstructionData", seed |-> 0, receive |-> 0, amount |-> 0]
    ELSE [err |-> MakeInstructionDataTryFrom(Len(data),
                      U64FromLeBytes(SubSeq(data, 17, 24))),
          seed |-> U64FromLeBytes(SubSeq(data, 1, 8)),
          receive |-> U64FromLeBytes(SubSeq(data, 9, 16)),
          amount |-> U64FromLeBytes(SubSeq(data, 17, 24))]

\* Make::process: fill the record, move the deposit into the vault.
MakeProcess(acc, a, bump) ==
    IF EscrowLoad(acc[a.escrow].len) # "Ok"
    THEN Ctx(EscrowLoad(acc[a.escrow].len), acc)
    ELSE TokenTransfer(
             [acc EXCEPT ![a.escrow].esc =
                  SetInner(a.seed, a.maker, a.mint_a, a.mint_b, a.receive, bump)],
             a.maker_ata_a, a.vault, a.maker, a.amount,
             TxSigners(a.maker, a.signed))

\* Make::try_from, then Make::process.
MakeHandler(acc, a) ==
    LET e1 == MakeAccountsTryFrom(acc, a)
        e2 == MakeInstructionDataTryFrom(a.data_len, a.amount)
        pda == EscrowPda(a.maker, a.seed)
        c1 == ProgramAccountInit(acc, a.maker, a.escrow,
                                 EscrowSignerSeeds(a.maker, a.seed, pda.bump),
                                 a.space, TxSigners(a.maker, a.signed))
        c2 == AssociatedTokenAccountInit(c1.acc, a.vault, a.mint_a, a.maker,
                                         a.escrow, a.token_program,
                                         TxSigners(a.maker, a.signed))
    IN  IF e1 # "Ok" THEN Ctx(e1, acc)
        ELSE IF e2 # "Ok" THEN Ctx(e2, acc)
        ELSE IF c1.err # "Ok" THEN c1
        ELSE IF c2.err # "Ok" THEN c2
        ELSE MakeProcess(c2.acc, a, pda.bump)

(* ------------------------------- Take ---------------------------------- *)
TAKE_ROLES == 11
TAKE_ACCOUNTS == 12

\* TakeAccounts::try_from.
TakeAccountsTryFrom(acc, a) ==
    IF a.n # TAKE_ACCOUNTS THEN "NotEnoughAccountKeys"
    ELSE FirstErr(<<SignerAccountCheck(a.signed),
                    MintCheck(acc, a.mint_a),
                    MintCheck(acc, a.mint_b),
                    ProgramAccountCheck(acc[a.escrow].owner, acc[a.escrow].len),
                    AssociatedTokenAccountCheck(acc, a.taker_ata_b, a.taker,
                                                a.mint_b, a.token_program),
                    AssociatedTokenAccountCheck(acc, a.vault, a.escrow,
                                                a.mint_a, a.token_program)>>)

\* A Take address check that derives once with the stored bump, as Refund's
\* does, and so accepts the record's own address.
TakeEscrowAddress_Verify(maker, seed, bump) ==
    IF CreateProgramAddress(EscrowSignerSeeds(maker, seed, bump), ID).ok
    THEN CreateProgramAddress(EscrowSignerSeeds(maker, seed, bump), ID).addr
    ELSE ZeroAddress

\* The address Take compares the supplied record with: a bump search over
\* the four seeds (tag, maker, seed, stored bump).
TakeEscrowAddress(maker, seed, bump) ==
    FindProgramAddress(EscrowSignerSeeds(maker, seed, bump), ID).addr

\* The amount Take moves out of the vault.
TakeVaultAmount(esc, vault_amount) == esc.receive

\* Take::process.
TakeProcess(acc, a) ==
    LET esc == acc[a.escrow].esc
        signers == PdaSigners(EscrowSignerSeeds(a.maker, esc.seed, esc.bump))
        c1 == TokenTransfer(acc, a.vault, a.taker_ata_a, a.escrow,
                            TakeVaultAmount(esc, acc[a.vault].tok.amount), signers)
        c2 == TokenCloseAccount(c1.acc, a.vault, a.maker, a.escrow, signers)
        c3 == TokenTransfer(c2.acc, a.taker_ata_b, a.maker_ata_b, a.taker,
                            esc.receive, TxSigners(a.taker, a.signed))
    IN  IF EscrowLoad(acc[a.escrow].len) # "Ok"
        THEN Ctx(EscrowLoad(acc[a.escrow].len), acc)
        ELSE IF a.escrow # TakeEscrowAddress(a.maker, esc.seed, esc.bump)
        THEN Ctx("InvalidAccountOwner", acc)
        ELSE IF c1.err # "Ok" THEN c1
        ELSE IF c2.err # "Ok" THEN c2
        ELSE IF c3.err # "Ok" THEN c3
        ELSE ProgramAccountClose(c3.acc, a.escrow, a.taker)

\* Take::try_from, then Take::process.
TakeHandler(acc, a) ==
    LET e1 == TakeAccountsTryFrom(acc, a)
        c1 == AssociatedTokenAccountInitIfNeeded(acc, a.taker_ata_a, a.mint_a,
                  a.taker, a.taker, a.token_program, TxSigners(a.taker, a.signed))
        c2 == AssociatedTokenAccountInitIfNeeded(c1.acc, a.maker_ata_b, a.mint_b,
                  a.taker, a.maker, a.token_program, TxSigners(a.taker, a.signed))
    IN  IF e1 # "Ok" THEN Ctx(e1, acc)
        ELSE IF c1.err # "Ok" THEN c1
        ELSE IF c2.err # "Ok" THEN c2
        ELSE TakeProcess(c2.acc, a)

(* ------------------------------ Refund --------------------------------- *)
REFUND_ROLES == 7
REFUND_ACCOUNTS == 8

\* RefundAccounts::try_from.
RefundAccountsTryFrom(acc, a) ==
    IF a.n # REFUND_ACCOUNTS THEN "NotEnoughAccountKeys"
    ELSE FirstErr(<<SignerAccountCheck(a.signed),
                    ProgramAccountCheck(acc[a.escrow].owner, acc[a.escrow].len),
                    MintCheck(acc, a.mint_a),
                    AssociatedTokenAccountCheck(acc, a.vault, a.escrow,
                                                a.mint_a, a.token_program)>>)

\* A Refund address check that searches for a bump as Take's does.
RefundEscrowAddress_Search(maker, seed, bump) ==
    [ok |-> TRUE,
     addr |-> FindProgramAddress(EscrowSignerSeeds(maker, seed, bump), ID).addr]

\* The address Refund compares the supplied record with: one derivation
\* with the stored bump, no search.
RefundEscrowAddress(maker, seed, bump) ==
    CreateProgramAddress(EscrowSignerSeeds(maker, seed, bump), ID)

\* The amount Refund moves out of the vault: the u64 at offset 64 of the
\* vault's data, the holding account's amount field.
RefundAmount(vault) == vault.tok.amount

\* A Refund that stops after the transfer and closes nothing.
RefundClose_NoClosing(acc, a, signers) == Ctx("Ok", acc)

\* A Refund that closes the vault and leaves the record.
RefundClose_VaultOnly(acc, a, signers) ==
    TokenCloseAccount(acc, a.vault, a.maker, a.escrow, signers)

\* The closing steps of Refund::process once the vault has been emptied.
RefundClose(acc, a, signers) ==
    LET c1 == TokenCloseAccount(acc, a.vault, a.maker, a.escrow, signers)
    IN  IF c1.err # "Ok" THEN c1
        ELSE ProgramAccountClose(c1.acc, a.escrow, a.maker)

\* A Refund that derives the record address and the signer proof from the
\* maker stored in the record, not from the maker account supplied.
RefundProcess_StoredMaker(acc, a) ==
    LET esc == acc[a.escrow].esc
        derived == RefundEscrowAddress(esc.maker, esc.seed, esc.bump)
        signers == PdaSigners(EscrowSignerSeeds(esc.maker, esc.seed, esc.bump))
        c1 == TokenTransfer(acc, a.vault, a.maker_ata_a, a.escrow,
                            RefundAmount(acc[a.vault]), signers)
    IN  IF EscrowLoad(acc[a.escrow].len) # "Ok"
        THEN Ctx(EscrowLoad(acc[a.escrow].len), acc)
        ELSE IF ~derived.ok THEN Ctx("InvalidSeeds", acc)
        ELSE IF a.escrow # derived.addr THEN Ctx("InvalidAccountOwner", acc)
        ELSE IF c1.err # "Ok" THEN c1
        ELSE RefundClose(c1.acc, a, signers)

\* Refund::process.
RefundProcess(acc, a) ==
    LET esc == acc[a.escrow].esc
        derived == RefundEscrowAddress(a.maker, esc.seed, esc.bump)
        signers == PdaSigners(EscrowSignerSeeds(a.maker, esc.seed, esc.bump))
        c1 == TokenTransfer(acc, a.vault, a.maker_ata_a, a.escrow,
                            RefundAmount(acc[a.vault]), signers)
    IN  IF EscrowLoad(acc[a.escrow].len) # "Ok"
        THEN Ctx(EscrowLoad(acc[a.escrow].len), acc)
        ELSE IF ~derived.ok THEN Ctx("InvalidSeeds", acc)
        ELSE IF a.escrow # derived.addr THEN Ctx("InvalidAccountOwner", acc)
        ELSE IF c1.err # "Ok" THEN c1
        ELSE RefundClose(c1.acc, a, signers)

\* A Refund that creates the maker's holding account before it validates
\* the account list.
RefundHandler_CreateFirst(acc, a) ==
    LET c1 == AssociatedTokenAccountInitIfNeeded(acc, a.maker_ata_a, a.mint_a,
                  a.maker, a.maker, a.token_program, TxSigners(a.maker, a.signed))
        e1 == RefundAccountsTryFrom(c1.acc, a)
    IN  IF c1.err # "Ok" THEN c1
        ELSE IF e1 # "Ok" THEN Ctx(e1, c1.acc)
        ELSE RefundProcess(c1.acc, a)

\* Refund::try_from, then Refund::process.
RefundHandler(acc, a) ==
    LET e1 == RefundAccountsTryFrom(acc, a)
        c1 == AssociatedTokenAccountInitIfNeeded(acc, a.maker_ata_a, a.mint_a,
                  a.maker, a.maker, a.token_program, TxSigners(a.maker, a.signed))
    IN  IF e1 # "Ok" THEN Ctx(e1, acc)
        ELSE IF c1.err # "Ok" THEN c1
        ELSE RefundProcess(c1.acc, a)

(* ------------------------- initial accounts ---------------------------- *)
Wallet(lamports) ==
    [owner |-> SYSTEM_ID, lamports |-> lamports, len |-> 0,
     esc |-> ZeroEscrow, tok |-> ZeroToken]
MintAccount ==
    [owner |-> TOKEN_ID, lamports |-> MinimumBalance(MINT_LEN), len |-> MINT_LEN,
     esc |-> ZeroEscrow, tok |-> ZeroToken]
Holding(mint, owner, amount) ==
    [owner |-> TOKEN_ID, lamports |-> MinimumBalance(TOKEN_ACCOUNT_LEN),
     len |-> TOKEN_ACCOUNT_LEN, esc |-> ZeroEscrow,
     tok |-> [mint |-> mint, owner |-> owner, amount |-> amount]]

\* Alice holds asset A and can fund one record and one vault; Bob holds
\* asset B and can fund two holding accounts.
InitAccounts ==
    [x \in Addrs |->
        IF x = Alice
        THEN Wallet(MinimumBalance(SizeOfEscrow) + MinimumBalance(TOKEN_ACCOUNT_LEN))
        ELSE IF x = Bob THEN Wallet(2 * MinimumBalance(TOKEN_ACCOUNT_LEN))
        ELSE IF x \in Mints THEN MintAccount
        ELSE IF x = Ata(Alice, MintA) THEN Holding(MintA, Alice, MaxAmount)
        ELSE IF x = Ata(Bob, MintB) THEN Holding(MintB, Bob, MaxAmount)
        ELSE EmptyAccount]

NoArgs == [n |-> 0]
Init ==
    /\ accounts = InitAccounts
    /\ last = [op |-> "Idle", args |-> NoArgs, result |-> "Ok",
               pre |-> InitAccounts, deposit |-> 0, effects |-> FALSE]
    /\ settled = {}
    /\ payouts = [e \in EscrowAddrs |-> 0]
    /\ deposited = [e \in EscrowAddrs |-> 0]

(* ---------------------------- invocations ------------------------------ *)
\* The wallets that open escrows.
Makers == {Alice}

\* An account list and payload of Make: the maker's own holding account of
\* mint_a and the vault derived from the supplied record and mint_a.
MakeArg(n, sg, m, e, ma, mb, s, r, am, sp) ==
    [n |-> n, signed |-> sg, maker |-> m, escrow |-> e, mint_a |-> ma,
     mint_b |-> mb, maker_ata_a |-> Ata(m, ma), vault |-> Ata(e, ma),
     token_program |-> TOKEN_ID, data_len |-> MAKE_DATA_LEN, seed |-> s,
     receive |-> r, amount |-> am, space |-> sp]

\* What is submitted to Make: well-formed requests for asset A against
\* asset B with every seed, receive and amount; the same with either record
\* space; the other mint pairs; and, for amounts 0 and 1, every combination
\* of a missing trailing account, a missing signature and a record address
\* of any (maker, seed).
MakeArgs ==
    {MakeArg(MAKE_ACCOUNTS, TRUE, m, EscrowPda(m, s).addr, MintA, MintB, s, r, am,
             EscrowLEN) :
        m \in Makers, s \in Seeds, r \in 0..MaxAmount, am \in 0..MaxAmount}
    \cup
    {MakeArg(MAKE_ACCOUNTS, TRUE, m, EscrowPda(m, s).addr, MintA, MintB, s, 1, am, sp) :
        m \in Makers, s \in Seeds, am \in {0, 1}, sp \in RecordSpaces}
    \cup
    {MakeArg(MAKE_ACCOUNTS, TRUE, m, EscrowPda(m, 0).addr, ma, mb, 0, 1, 1, EscrowLEN) :
        m \in Makers, ma \in Mints, mb \in Mints}
    \cup
    {MakeArg(n, sg, m, e, MintA, MintB, 0, 1, am, EscrowLEN) :
        n \in {MAKE_ACCOUNTS - 1, MAKE_ACCOUNTS}, sg \in BOOLEAN, m \in Makers,
        e \in EscrowAddrs, am \in {0, 1}}

TakeArg(n, sg, t, m, e, ma, mb) ==
    [n |-> n, signed |-> sg, taker |-> t, maker |-> m, escrow |-> e,
     mint_a |-> ma, mint_b |-> mb, maker_ata_b |-> Ata(m, mb),
     taker_ata_b |-> Ata(t, mb), taker_ata_a |-> Ata(t, ma),
     vault |-> Ata(e, ma), token_program |-> TOKEN_ID]

\* What is submitted to Take: any taker, maker and record address for
\* asset A against asset B, with the holding accounts derived from them; the
\* other mint pairs for the makers' records; and requests of the makers'
\* records without the signature or the trailing account.
TakeArgs ==
    {TakeArg(TAKE_ACCOUNTS, TRUE, t, m, e, MintA, MintB) :
        t \in Wallets, m \in Wallets, e \in EscrowAddrs}
    \cup
    {TakeArg(TAKE_ACCOUNTS, TRUE, Bob, m, EscrowPda(m, s).addr, ma, mb) :
        m \in Makers, s \in Seeds, ma \in Mints, mb \in Mints}
    \cup
    {TakeArg(n, sg, Bob, m, EscrowPda(m, s).addr, MintA, MintB) :
        n \in {TAKE_ACCOUNTS - 1, TAKE_ACCOUNTS}, sg \in BOOLEAN,
        m \in Makers, s \in Seeds}

RefundArg(n, sg, m, e, ma, v) ==
    [n |-> n, signed |-> sg, maker |-> m, escrow |-> e, mint_a |-> ma,
     vault |-> Ata(v, ma), maker_ata_a |-> Ata(m, ma),
     token_program |-> TOKEN_ID]

\* What is submitted to Refund: any maker and record address for asset A,
\* with the vault of the record or the maker's own holding account in its
\* place; the other mint for the makers' records; and requests of the
\* makers' records without the signature or the trailing account.
RefundArgs ==
    {RefundArg(REFUND_ACCOUNTS, TRUE, m, e, MintA, IF own THEN m ELSE e) :
        m \in Wallets, e \in EscrowAddrs, own \in BOOLEAN}
    \cup
    {RefundArg(REFUND_ACCOUNTS, TRUE, m, EscrowPda(m, s).addr, ma,
               EscrowPda(m, s).addr) :
        m \in Makers, s \in Seeds, ma \in Mints}
    \cup
    {RefundArg(n, sg, m, EscrowPda(m, s).addr, MintA, EscrowPda(m, s).addr) :
        n \in {REFUND_ACCOUNTS - 1, REFUND_ACCOUNTS}, sg \in BOOLEAN,
        m \in Makers, s \in Seeds}

\* The runtime commits the changes of a successful invocation and discards
\* those of a failed one.
Commit(c) == IF c.err = "Ok" THEN c.acc ELSE accounts

\* The invocation as the client sees it: what was submitted, the result,
\* the accounts it ran on, what Make had deposited for the record named, and
\* whether the handler had changed an account through a collaborator by the
\* time it returned (committed or not).
Record(op, a, c) ==
    last' = [op |-> op, args |-> a, result |-> c.err, pre |-> accounts,
             deposit |-> deposited[a.escrow], effects |-> c.acc # accounts]

Make(a) ==
    LET c == MakeHandler(accounts, a)
    IN  /\ last.op = "Idle"
        /\ accounts' = Commit(c)
        /\ Record("Make", a, c)
        /\ payouts' = IF c.err = "Ok" THEN [payouts EXCEPT ![a.escrow] = 0]
                      ELSE payouts
        /\ deposited' = IF c.err = "Ok"
                        THEN [deposited EXCEPT ![a.escrow] = a.amount]
                        ELSE deposited
        /\ UNCHANGED settled

\* The history of settlements: the addresses settled so far, and per address
\* the settlements since the record there was last created.
Settled(a, c) ==
    /\ settled' = IF c.err = "Ok" THEN settled \cup {a.escrow} ELSE settled
    /\ payouts' = IF c.err = "Ok"
                  THEN [payouts EXCEPT ![a.escrow] = IF @ < 2 THEN @ + 1 ELSE @]
                  ELSE payouts
    /\ deposited' = IF c.err = "Ok" THEN [deposited EXCEPT ![a.escrow] = 0]
                    ELSE deposited

Take(a) ==
    LET c == TakeHandler(accounts, a)
    IN  /\ last.op = "Idle"
        /\ accounts' = Commit(c)
        /\ Record("Take", a, c)
        /\ Settled(a, c)

Refund(a) ==
    LET c == RefundHandler(accounts, a)
    IN  /\ last.op = "Idle"
        /\ accounts' = Commit(c)
        /\ Record("Refund", a, c)
        /\ Settled(a, c)

\* Anyone may pay into a holding account through the token program itself:
\* here a wallet moves one unit from its own holding account into a vault.
ExternalDeposit(w, m, v) ==
    LET c == TokenTransfer(accounts, Ata(w, m), v, w, 1, {w})
    IN  /\ last.op = "Idle"
        /\ accounts[v].tok.owner \in EscrowAddrs
        /\ c.err = "Ok"
        /\ accounts' = c.acc
        /\ Record("ExternalDeposit",
                  [n |-> 0, from |-> Ata(w, m), to |-> v,
                   escrow |-> accounts[v].tok.owner], c)
        /\ UNCHANGED <<settled, payouts, deposited>>

\* The runtime serializes invocations: the next one starts from the
\* accounts the previous one left.
NextInvocation ==
    /\ last.op # "Idle"
    /\ last' = [op |-> "Idle", args |-> NoArgs, result |-> "Ok",
                pre |-> accounts, deposit |-> 0, effects |-> FALSE]
    /\ UNCHANGED <<accounts, settled, payouts, deposited>>

Next ==
    \/ \E a \in MakeArgs : Make(a)
    \/ \E a \in TakeArgs : Take(a)
    \/ \E a \in RefundArgs : Refund(a)
    \/ \E w \in Wallets, m \in Mints, v \in AtaAddrs : ExternalDeposit(w, m, v)
    \/ NextInvocation

Spec == Init /\ [][Next]_vars

(* ----------------- the validators and the parser alone ----------------- *)
\* The accounts MintInterface::check is tried on: an owner, a data length
\* around the two lengths the check knows, and the byte at the
\* discriminator offset where the data has one (0 where it has none).
MintOwners == {TOKEN_ID, TOKEN_2022_PROGRAM_ID, SYSTEM_ID, ID}
MintLens ==
    {0, MINT_LEN - 1, MINT_LEN, MINT_LEN + 1,
     TOKEN_2022_ACCOUNT_DISCRIMINATOR_OFFSET - 1,
     TOKEN_2022_ACCOUNT_DISCRIMINATOR_OFFSET,
     TOKEN_2022_ACCOUNT_DISCRIMINATOR_OFFSET + 1,
     TOKEN_2022_ACCOUNT_DISCRIMINATOR_OFFSET + MINT_LEN}
MintBytes ==
    {0, TOKEN_2022_MINT_DISCRIMINATOR, TOKEN_2022_TOKEN_ACCOUNT_DISCRIMINATOR}
MintInputs ==
    {[n |-> 0, owner |-> o, len |-> l,
      byte165 |-> IF l > TOKEN_2022_ACCOUNT_DISCRIMINATOR_OFFSET THEN b ELSE 0] :
        o \in MintOwners, l \in MintLens, b \in MintBytes}

\* The payloads MakeInstructionData::try_from is tried on: the encodings of
\* one- and two-byte values, each also one byte short and one byte long,
\* and the empty payload.
PayloadValues == {0, 1, MaxAmount, 256, 256 + 256 + 1}
Encoded ==
    {U64LeBytes(s) \o U64LeBytes(r) \o U64LeBytes(am) :
        s \in PayloadValues, r \in PayloadValues, am \in PayloadValues}
Payloads ==
    Encoded
    \cup {SubSeq(d, 1, Len(d) - 1) : d \in Encoded}
    \cup {Append(d, 1) : d \in Encoded}
    \cup {<<>>}

CheckMint(m) ==
    /\ last.op = "Idle"
    /\ last' = [op |-> "MintCheck", args |-> m,
                result |-> MintInterfaceCheck(m.owner, m.len, m.byte165),
                reads165 |-> MintInterfaceReads165(m.owner, m.len),
                pre |-> accounts, deposit |-> 0, effects |-> FALSE]
    /\ UNCHANGED <<accounts, settled, payouts, deposited>>

CheckTokenAccount(m) ==
    /\ last.op = "Idle"
    /\ last' = [op |-> "TokenAccountCheck", args |-> m,
                result |-> TokenAccountInterfaceCheck(m.owner, m.len, m.byte165),
                reads165 |-> TokenAccountInterfaceReads165(m.owner, m.len),
                pre |-> accounts, deposit |-> 0, effects |-> FALSE]
    /\ UNCHANGED <<accounts, settled, payouts, deposited>>

ParsePayload(data) ==
    /\ last.op = "Idle"
    /\ last' = [op |-> "MakeData", args |-> [n |-> 0, data |-> data],
                result |-> MakeInstructionDataParse(data).err,
                decoded |-> MakeInstructionDataParse(data),
                pre |-> accounts, deposit |-> 0, effects |-> FALSE]
    /\ UNCHANGED <<accounts, settled, payouts, deposited>>

\* What init_if_needed is tried on: the holding accounts of the wallets, a
\* mint and a wallet in the place of a holding account, for any owner, mint
\* and (signing) payer.
InitIfNeededInputs ==
    {[n |-> 0, account |-> x, mint |-> m, payer |-> p, owner |-> o] :
        x \in {Ata(w, mm) : w \in Wallets, mm \in Mints} \cup {MintA, Alice},
        m \in Mints, p \in Wallets, o \in Wallets}

\* init_if_needed called on its own, its result committed as the runtime
\* would commit it.
ApplyInitIfNeeded(a) ==
    LET c == AssociatedTokenAccountInitIfNeeded(accounts, a.account, a.mint,
                 a.payer, a.owner, TOKEN_ID, {a.payer})
    IN  /\ last.op = "Idle"
        /\ accounts' = Commit(c)
        /\ last' = [op |-> "InitIfNeeded", args |-> a, result |-> c.err,
                    calls |-> InitIfNeededCalls(accounts, a.account, a.mint,
                                                a.owner, TOKEN_ID),
                    pre |-> accounts, deposit |-> 0,
                    effects |-> c.acc # accounts]
        /\ UNCHANGED <<settled, payouts, deposited>>

ValidatorNext ==
    \/ \E m \in MintInputs : CheckMint(m)
    \/ \E m \in MintInputs : CheckTokenAccount(m)
    \/ \E data \in Payloads : ParsePayload(data)
    \/ \E a \in InitIfNeededInputs : ApplyInitIfNeeded(a)
    \/ NextInvocation

ValidatorSpec == Init /\ [][ValidatorNext]_vars

(* ------------- the handlers step by step: borrows and close ------------- *)
\* One step of a handler: what it does (k), the account it borrows or
\* changes, the borrow guard it takes or drops, and for a collaborator call
\* the accounts passed writable (wr) and read-only (rd).
Ins(k, acct, g, wr, rd) == [k |-> k, acct |-> acct, g |-> g, wr |-> wr, rd |-> rd]
Try == Ins("try", "", "", {}, {})
Borrow(acct, g) == Ins("borrow", acct, g, {}, {})
BorrowMut(acct, g) == Ins("borrow_mut", acct, g, {}, {})
Drop(g) == Ins("drop", "", g, {}, {})
Cpi(wr, rd) == Ins("cpi", "", "", wr, rd)

\* SignerAccount::check: reads the signer flag.
SignerAccountSteps == <<Try>>

\* MintInterface::check: borrows the data of an account of the Token-2022
\* program until it returns; reads only owner and length otherwise.
MintInterfaceSteps(acct, t22) ==
    IF t22 THEN <<Borrow(acct, acct), Try, Drop(acct)>> ELSE <<Try>>

\* TokenAccountInterface::check: the same for a holding account.
TokenAccountInterfaceSteps(acct, t22) ==
    IF t22 THEN <<Borrow(acct, acct), Try, Drop(acct)>> ELSE <<Try>>

\* AssociatedTokenAccount::check: the shape, then the derived address.
AssociatedTokenAccountCheckSteps(acct, t22) ==
    TokenAccountInterfaceSteps(acct, t22) \o <<Try>>

\* ProgramAccount::check: owner and data length, no borrow.
ProgramAccountCheckSteps == <<Try>>

\* AssociatedTokenAccount::init_if_needed where the account is missing:
\* the check (its error is matched, not returned), then Create.
InitIfNeededSteps(acct, payer, owner, mint, t22) ==
    (IF t22 THEN <<Borrow(acct, acct), Drop(acct)>> ELSE <<>>)
    \o <<Cpi({payer, acct}, {owner, mint, "system_program", "token_program"})>>

\* A close that shrinks the record before it marks it.
ProgramAccountCloseSteps_ShrinkFirst(account, destination) ==
    <<Ins("resize", account, "", {}, {}),
      BorrowMut(account, "close"),
      Ins("sentinel", account, "close", {}, {}),
      Drop("close"),
      Ins("credit", account, destination, {}, {}),
      Ins("close", account, "", {}, {})>>

\* ProgramAccount::close: in a block, borrow the data exclusively and write
\* 0xff to byte 0; add the account's lamports to the destination; resize
\* to one byte; close.
ProgramAccountCloseSteps(account, destination) ==
    <<BorrowMut(account, "close"),
      Ins("sentinel", account, "close", {}, {}),
      Drop("close"),
      Ins("credit", account, destination, {}, {}),
      Ins("resize", account, "", {}, {}),
      Ins("close", account, "", {}, {})>>

\* Make::try_from and Make::process.  process borrows the record
\* exclusively until it returns.
MakeSteps(t22) ==
    <<Try>>
    \o SignerAccountSteps
    \o MintInterfaceSteps("mint_a", t22)
    \o MintInterfaceSteps("mint_b", t22)
    \o AssociatedTokenAccountCheckSteps("maker_ata_a", t22)
    \o <<Try,
         Cpi({"maker", "escrow"}, {}),
         Cpi({"maker", "vault"},
             {"escrow", "mint_a", "system_program", "token_program"}),
         BorrowMut("escrow", "data"),
         Try,
         Ins("set_inner", "escrow", "data", {}, {}),
         Cpi({"maker_ata_a", "vault"}, {"maker"})>>

\* A Take that keeps its borrow of the record until process returns.
TakeProcessSteps_NoDrop ==
    <<Borrow("escrow", "data"),
      Try,
      Try,
      Cpi({"vault", "taker_ata_a"}, {"escrow"}),
      Cpi({"vault", "maker"}, {"escrow"}),
      Cpi({"taker_ata_b", "maker_ata_b"}, {"taker"})>>
    \o ProgramAccountCloseSteps("escrow", "taker")

\* Take::process: the record stays borrowed (shared) from the load to the
\* explicit drop before the close.
TakeProcessSteps ==
    <<Borrow("escrow", "data"),
      Try,
      Try,
      Cpi({"vault", "taker_ata_a"}, {"escrow"}),
      Cpi({"vault", "maker"}, {"escrow"}),
      Cpi({"taker_ata_b", "maker_ata_b"}, {"taker"}),
      Drop("data")>>
    \o ProgramAccountCloseSteps("escrow", "taker")

\* Take::try_from, then Take::process.
TakeSteps(t22) ==
    <<Try>>
    \o SignerAccountSteps
    \o MintInterfaceSteps("mint_a", t22)
    \o MintInterfaceSteps("mint_b", t22)
    \o ProgramAccountCheckSteps
    \o AssociatedTokenAccountCheckSteps("taker_ata_b", t22)
    \o AssociatedTokenAccountCheckSteps("vault", t22)
    \o InitIfNeededSteps("taker_ata_a", "taker", "taker", "mint_a", t22)
    \o InitIfNeededSteps("maker_ata_b", "taker", "maker", "mint_b", t22)
    \o TakeProcessSteps

\* Refund::process: the record and the vault are each borrowed inside a
\* block that ends before the first collaborator call.
RefundProcessSteps ==
    <<Borrow("escrow", "data"),
      Try,
      Try,
      Try,
      Drop("data"),
      Borrow("vault", "vault_data"),
      Drop("vault_data"),
      Cpi({"vault", "maker_ata_a"}, {"escrow"}),
      Cpi({"vault", "maker"}, {"escrow"})>>
    \o ProgramAccountCloseSteps("escrow", "maker")

\* Refund::try_from, then Refund::process.
RefundSteps(t22) ==
    <<Try>>
    \o SignerAccountSteps
    \o ProgramAccountCheckSteps
    \o MintInterfaceSteps("mint_a", t22)
    \o AssociatedTokenAccountCheckSteps("vault", t22)
    \o InitIfNeededSteps("maker_ata_a", "maker", "maker", "mint_a", t22)
    \o RefundProcessSteps

Handlers == {"Make", "Take", "Refund"}
Steps(h, t22) ==
    IF h = "Make" THEN MakeSteps(t22)
    ELSE IF h = "Take" THEN TakeSteps(t22)
    ELSE RefundSteps(t22)

\* The borrow state of an account as pinocchio keeps it.
Borrowed(guards, acct) == \E x \in guards : x.acct = acct
MutBorrowed(guards, acct) == \E x \in guards : x.acct = acct /\ x.mode = "mut"

\* invoke / invoke_signed refuse a writable account that is borrowed and a
\* read-only account that is borrowed exclusively.
CpiConflict(guards, wr, rd) ==
    \/ \E acct \in wr : Borrowed(guards, acct)
    \/ \E acct \in rd : MutBorrowed(guards, acct)

\* Whether the step can go through in this borrow and data state.
CanSucceed(st, ins) ==
    IF ins.k = "borrow" THEN ~MutBorrowed(st.guards, ins.acct)
    ELSE IF ins.k \in {"borrow_mut", "resize", "close"}
    THEN ~Borrowed(st.guards, ins.acct)
    ELSE IF ins.k = "cpi" THEN ~CpiConflict(st.guards, ins.wr, ins.rd)
    ELSE IF ins.k = "sentinel" THEN st.rec.len > 0
    ELSE TRUE

\* The record's data and backing value and the destination's backing
\* value after the step.
RecAfter(st, ins) ==
    IF ins.k = "sentinel" THEN [st.rec EXCEPT !.sentinel = TRUE]
    ELSE IF ins.k = "resize"
    THEN [st.rec EXCEPT !.len = 1,
                        !.sentinel = (st.rec.sentinel /\ st.rec.len > 0)]
    ELSE IF ins.k = "close"
    THEN [len |-> 0, sentinel |-> FALSE, lamports |-> 0]
    ELSE st.rec
DestAfter(st, ins) ==
    IF ins.k = "credit" THEN st.dest + st.rec.lamports ELSE st.dest
GuardsAfter(st, ins) ==
    IF ins.k = "borrow"
    THEN st.guards \cup {[g |-> ins.g, acct |-> ins.acct, mode |-> "shared"]}
    ELSE IF ins.k = "borrow_mut"
    THEN st.guards \cup {[g |-> ins.g, acct |-> ins.acct, mode |-> "mut"]}
    ELSE IF ins.k = "drop" THEN {x \in st.guards : x.g # ins.g}
    ELSE st.guards

\* The steps of close carried out so far.
CloseKinds == {"sentinel", "credit", "resize", "close"}
DoneAfter(st, ins) ==
    IF ins.k \in CloseKinds THEN Append(st.done, ins.k) ELSE st.done

\* An invocation starts with the record as Make left it and no borrow.
StartHandler(h, t22, d) ==
    /\ last.op = "Idle"
    /\ last' = [op |-> "Step", args |-> [n |-> 0, handler |-> h, t22 |-> t22],
                result |-> "Running", pc |-> 1, guards |-> {},
                rec |-> [len |-> EscrowLEN, sentinel |-> FALSE,
                         lamports |-> MinimumBalance(EscrowLEN)],
                dest |-> d, dest0 |-> d, done |-> <<>>,
                pre |-> accounts, deposit |-> 0, effects |-> FALSE]
    /\ UNCHANGED <<accounts, settled, payouts, deposited>>

\* The step at pc goes through; after the last one the handler returns Ok
\* and the guards still in scope are dropped.
Advance ==
    /\ last.op = "Step"
    /\ last.result = "Running"
    /\ LET prog == Steps(last.args.handler, last.args.t22)
           ins == prog[last.pc]
           g == GuardsAfter(last, ins)
       IN  /\ CanSucceed(last, ins)
           /\ last' = [last EXCEPT
                  !.pc = @ + 1,
                  !.guards = IF last.pc = Len(prog) THEN {} ELSE g,
                  !.rec = RecAfter(last, ins),
                  !.dest = DestAfter(last, ins),
                  !.done = DoneAfter(last, ins),
                  !.result = IF last.pc = Len(prog) THEN "Ok" ELSE "Running"]
    /\ UNCHANGED <<accounts, settled, payouts, deposited>>

\* The step at pc fails, by a refused borrow or by an error it returns: the
\* handler returns the error, and the guards in scope are dropped with it.
Fail ==
    /\ last.op = "Step"
    /\ last.result = "Running"
    /\ LET ins == Steps(last.args.handler, last.args.t22)[last.pc]
       IN  \/ ~CanSucceed(last, ins)
           \/ ins.k \in {"try", "cpi"}
    /\ last' = [last EXCEPT !.guards = {}, !.result = "Err"]
    /\ UNCHANGED <<accounts, settled, payouts, deposited>>

StepNext ==
    \/ \E h \in Handlers, t22 \in BOOLEAN, d \in 0..MaxAmount : StartHandler(h, t22, d)
    \/ Advance
    \/ Fail
    \/ NextInvocation

StepSpec == Init /\ [][StepNext]_vars

(* ----------------------- settlement is guarded -------------------------- *)
\* C1: a Take or a Refund whose record address is not the one derived from
\* the tag, the supplied maker and the seed and bump stored in the record
\* fails, and every account (balances, vault, record) is as it was before.
C1_AddressSubstitutionRejected ==
    last.op \in {"Take", "Refund"} =>
        LET a == last.args
            esc == last.pre[a.escrow].esc
            d == CreateProgramAddress(
                     EscrowSignerSeeds(a.maker, esc.seed, esc.bump), ID)
        IN  (~d.ok \/ d.addr # a.escrow) =>
                last.result # "Ok" /\ accounts = last.pre

\* C1 happens: a signed Refund of an open record by a wallet that is not its
\* maker gets as far as the address comparison and is rejected there.
C1_Witness ==
    /\ last.op = "Refund"
    /\ last.result = "InvalidAccountOwner"
    /\ last.pre[last.args.escrow].owner = ID
    /\ last.args.maker # last.pre[last.args.escrow].esc.maker
    /\ accounts = last.pre

\* C2 as stated: every Take or Refund naming an address that was settled
\* before fails with the owner or account-data error and changes nothing.
C2_Original ==
    [][(/\ last.op = "Idle"
        /\ last'.op \in {"Take", "Refund"}
        /\ last'.args.escrow \in settled)
       => (/\ last'.result \in {"EscrowError::InvalidOwner",
                               "EscrowError::InvalidAccountData"}
           /\ accounts' = accounts)]_vars

\* C2: from the settlement of a record until a Make creates a record at
\* that address again, the address fails the ProgramAccount check, and every
\* Take or Refund naming it fails and changes nothing; the error is that of
\* the ProgramAccount check unless an earlier check of the account list (the
\* count, the signature, for Take the mints) fails first.
C2_NoDoubleSettlement ==
    [][(/\ last.op = "Idle"
        /\ last'.op \in {"Take", "Refund"}
        /\ last'.args.escrow \in settled
        /\ payouts[last'.args.escrow] > 0)
       => LET a == last'.args
              chk == ProgramAccountCheck(accounts[a.escrow].owner,
                                         accounts[a.escrow].len)
              early ==
                  IF last'.op = "Take"
                  THEN IF a.n # TAKE_ACCOUNTS THEN "NotEnoughAccountKeys"
                       ELSE FirstErr(<<SignerAccountCheck(a.signed),
                                       MintCheck(accounts, a.mint_a),
                                       MintCheck(accounts, a.mint_b)>>)
                  ELSE IF a.n # REFUND_ACCOUNTS THEN "NotEnoughAccountKeys"
                       ELSE SignerAccountCheck(a.signed)
          IN  /\ chk \in {"EscrowError::InvalidOwner",
                           "EscrowError::InvalidAccountData"}
              /\ last'.result = (IF early # "Ok" THEN early ELSE chk)
              /\ accounts' = accounts]_vars

\* C2 happens: a complete, signed Take or Refund names a record that a
\* settlement closed and is rejected with the owner error.
C2_Witness ==
    /\ last.op \in {"Take", "Refund"}
    /\ last.args.signed
    /\ last.args.escrow \in settled
    /\ payouts[last.args.escrow] = 1
    /\ last.pre[last.args.escrow].owner # ID
    /\ last.result = "EscrowError::InvalidOwner"

\* C3: of the settlements aimed at one open record at most one succeeds,
\* in whatever order they run: the vault is paid out at most once per
\* record, and a settlement that fails leaves every account as it was.
C3_AtMostOneSettlement ==
    /\ \A e \in EscrowAddrs : payouts[e] <= 1
    /\ (last.op \in {"Take", "Refund"} /\ last.result # "Ok")
           => accounts = last.pre

\* C3 happens: the maker's own well-formed Refund of her record loses the
\* race, it runs after another settlement of that record and is rejected.
C3_Witness ==
    /\ last.op = "Refund"
    /\ last.args.n = REFUND_ACCOUNTS
    /\ last.args.signed
    /\ last.args.maker \in Makers
    /\ last.args.escrow \in {EscrowPda(last.args.maker, s).addr : s \in Seeds}
    /\ last.args.vault = Ata(last.args.escrow, MintA)
    /\ payouts[last.args.escrow] = 1
    /\ last.result # "Ok"
    /\ accounts = last.pre

(* ------------------------------ Take ----------------------------------- *)
\* C4: for every record Make created, the address Take derives from the
\* maker, the stored seed and the stored bump (a verification with the
\* stored bump, no search) is the address of the record, so a Take naming
\* the genuine maker and record passes the address check.
C4_TakeVerifiesStoredBump ==
    /\ \A e \in EscrowAddrs :
           ProgramAccountCheck(accounts[e].owner, accounts[e].len) = "Ok" =>
               TakeEscrowAddress(accounts[e].esc.maker, accounts[e].esc.seed,
                                 accounts[e].esc.bump) = e
    /\ (/\ last.op = "Take"
        /\ ProgramAccountCheck(last.pre[last.args.escrow].owner,
                               last.pre[last.args.escrow].len) = "Ok"
        /\ last.args.maker = last.pre[last.args.escrow].esc.maker)
           => last.result # "InvalidAccountOwner"

\* C5: the amount Take moves out of the vault is the vault's whole balance,
\* so the vault is empty when Take closes it.
C5_TakeMovesVaultBalance ==
    \A e \in EscrowAddrs :
        ProgramAccountCheck(accounts[e].owner, accounts[e].len) = "Ok" =>
            LET esc == accounts[e].esc
                vault == accounts[Ata(e, esc.mint_a)]
            IN  TakeVaultAmount(esc, vault.tok.amount) = vault.tok.amount

C7_RefundPostcondition ==
    (last.op = "Refund" /\ last.result = "Ok") =>
        LET a == last.args
            pre == last.pre
        IN  /\ accounts[a.maker_ata_a].tok.amount =
                   pre[a.maker_ata_a].tok.amount + pre[a.vault].tok.amount
            /\ accounts[a.vault] = EmptyAccount
            /\ accounts[a.escrow] = EmptyAccount
            /\ ProgramAccountCheck(accounts[a.escrow].owner,
                                   accounts[a.escrow].len) # "Ok"

\* C7 happens: a Refund succeeds on a vault whose balance is no longer the
\* amount deposited at Make.
C7_Witness ==
    /\ last.op = "Refund"
    /\ last.result = "Ok"
    /\ last.pre[last.args.vault].tok.amount # last.deposit
    /\ accounts[last.args.maker_ata_a].tok.amount =
           last.pre[last.args.maker_ata_a].tok.amount
               + last.pre[last.args.vault].tok.amount

\* C8: for every maker and seed, the one-step derivation Refund makes with
\* the bump Make's search returned gives the address Make's search returned;
\* every open record sits at the address Refund derives from the maker, seed
\* and bump stored in it; and a Refund of an open record by its maker is
\* never rejected by the derivation or the address comparison.
C8_DerivationRoundTrip ==
    /\ \A w \in Wallets, s \in Seeds :
           RefundEscrowAddress(w, s, EscrowPda(w, s).bump)
               = [ok |-> TRUE, addr |-> EscrowPda(w, s).addr]
    /\ \A e \in EscrowAddrs :
           ProgramAccountCheck(accounts[e].owner, accounts[e].len) = "Ok" =>
               RefundEscrowAddress(accounts[e].esc.maker, accounts[e].esc.seed,
                                   accounts[e].esc.bump)
                   = [ok |-> TRUE, addr |-> e]
    /\ (/\ last.op = "Refund"
        /\ ProgramAccountCheck(last.pre[last.args.escrow].owner,
                               last.pre[last.args.escrow].len) = "Ok"
        /\ last.args.maker = last.pre[last.args.escrow].esc.maker)
           => last.result \notin {"InvalidSeeds", "InvalidAccountOwner"}

\* C8 happens: a Refund succeeds on a record whose bump is not the first
\* the search tries, so the search and the one-step derivation differ in
\* what they compute.
C8_Witness ==
    /\ last.op = "Refund"
    /\ last.result = "Ok"
    /\ last.pre[last.args.escrow].esc.bump # U8_MAX
    /\ last.pre[last.args.escrow].esc.bump
           = EscrowPda(last.args.maker, last.pre[last.args.escrow].esc.seed).bump

(* ------------------------------- Make ---------------------------------- *)
\* C9 as stated: a Make with amount 0 fails with the payload error and
\* creates nothing, whatever the account list.
C9_Original ==
    (last.op = "Make" /\ last.args.amount = 0) =>
        last.result = "InvalidInstructionData" /\ accounts = last.pre

\* C9: a Make with amount 0 fails and creates nothing, whatever the account
\* list; the error is the payload error when the account list passes
\* MakeAccounts::try_from, and the error of that validation when it does not.
C9_ZeroAmountRejected ==
    (last.op = "Make" /\ last.args.amount = 0) =>
        /\ last.result # "Ok"
        /\ accounts = last.pre
        /\ last.result =
               (IF MakeAccountsTryFrom(last.pre, last.args) = "Ok"
                THEN "InvalidInstructionData"
                ELSE MakeAccountsTryFrom(last.pre, last.args))

\* C9 happens: a Make with amount 0 and a valid account list is rejected
\* with the payload error.
C9_Witness ==
    /\ last.op = "Make"
    /\ last.args.amount = 0
    /\ MakeAccountsTryFrom(last.pre, last.args) = "Ok"
    /\ last.result = "InvalidInstructionData"
    /\ accounts = last.pre

\* C10: a Make with amount > 0 and valid accounts (complete, signed, the
\* record address derived from maker and seed and unused, the maker able to
\* fund the accounts and the deposit) creates exactly one record, of
\* Escrow::LEN = 113 bytes and owned by the program, which passes the
\* ProgramAccount check and the exact-length load, and a vault holding
\* exactly amount.
C10_MakeCreatesRecordAndVault ==
    LET a == last.args
        pre == last.pre
    IN  (/\ last.op = "Make"
         /\ a.amount > 0
         /\ MakeAccountsTryFrom(pre, a) = "Ok"
         /\ a.escrow = EscrowPda(a.maker, a.seed).addr
         /\ pre[a.escrow] = EmptyAccount
         /\ pre[a.vault] = EmptyAccount
         /\ pre[a.maker].lamports >=
                MinimumBalance(SizeOfEscrow) + MinimumBalance(TOKEN_ACCOUNT_LEN)
         /\ pre[a.maker_ata_a].tok.amount >= a.amount)
        => (/\ last.result = "Ok"
            /\ accounts[a.escrow].len = EscrowLEN
            /\ ProgramAccountCheck(accounts[a.escrow].owner,
                                   accounts[a.escrow].len) = "Ok"
            /\ EscrowLoad(accounts[a.escrow].len) = "Ok"
            /\ accounts[a.vault].tok =
                   [mint |-> a.mint_a, owner |-> a.escrow, amount |-> a.amount]
            /\ \A e \in EscrowAddrs \ {a.escrow} : accounts[e] = pre[e])

(* --------------------------- the record's life ------------------------- *)
\* C11 as stated: an address that a Take or a Refund settled never holds an
\* open record again, and no open record has had part of its vault paid
\* out.
C11_Original ==
    /\ \A e \in settled :
           ProgramAccountCheck(accounts[e].owner, accounts[e].len) # "Ok"
    /\ \A e \in EscrowAddrs :
           ProgramAccountCheck(accounts[e].owner, accounts[e].len) = "Ok" =>
               accounts[Ata(e, accounts[e].esc.mint_a)].tok.amount >= deposited[e]

\* C11: a record comes to exist at an address only through a successful
\* Make naming that address, never through a Take, a Refund or a failed
\* invocation, so a settled address is open again only after a new Make; and
\* no open record is partially fulfilled: no settlement has paid out of it,
\* and its vault exists and holds at least what Make deposited.
C11_ReopenedOnlyByMake ==
    /\ \A e \in EscrowAddrs :
           (/\ ProgramAccountCheck(accounts[e].owner, accounts[e].len) = "Ok"
            /\ ProgramAccountCheck(last.pre[e].owner, last.pre[e].len) # "Ok")
               => (/\ last.op = "Make"
                   /\ last.result = "Ok"
                   /\ last.args.escrow = e)
    /\ \A e \in EscrowAddrs :
           ProgramAccountCheck(accounts[e].owner, accounts[e].len) = "Ok" =>
               /\ payouts[e] = 0
               /\ deposited[e] > 0
               /\ IsTokenAccount(accounts[Ata(e, accounts[e].esc.mint_a)])
               /\ accounts[Ata(e, accounts[e].esc.mint_a)].tok.amount
                      >= deposited[e]

\* C11 happens: a Make succeeds at an address that a Refund had settled, and
\* the record there is open again.
C11_Witness ==
    /\ last.op = "Make"
    /\ last.result = "Ok"
    /\ last.args.escrow \in settled
    /\ ProgramAccountCheck(last.pre[last.args.escrow].owner,
                           last.pre[last.args.escrow].len) # "Ok"
    /\ ProgramAccountCheck(accounts[last.args.escrow].owner,
                           accounts[last.args.escrow].len) = "Ok"

\* C12: while the record of (maker, seed) is open, a Make with that maker
\* and seed fails and changes no account (the record's fields, the vault and
\* every balance are as before), with the system program's address-in-use
\* error when the account list and the payload are valid; and the open
\* record of a (maker, seed) pair sits at the one address derived from the
\* pair, so no pair has two open records.
C12_OneRecordPerMakerAndSeed ==
    /\ (/\ last.op = "Make"
        /\ last.args.escrow = EscrowPda(last.args.maker, last.args.seed).addr
        /\ ProgramAccountCheck(last.pre[last.args.escrow].owner,
                               last.pre[last.args.escrow].len) = "Ok")
           => (/\ last.result # "Ok"
               /\ accounts = last.pre
               /\ (/\ MakeAccountsTryFrom(last.pre, last.args) = "Ok"
                   /\ MakeInstructionDataTryFrom(last.args.data_len,
                                                 last.args.amount) = "Ok")
                      => last.result = "AccountAlreadyInUse")
    /\ \A e1 \in EscrowAddrs, e2 \in EscrowAddrs :
           (/\ ProgramAccountCheck(accounts[e1].owner, accounts[e1].len) = "Ok"
            /\ ProgramAccountCheck(accounts[e2].owner, accounts[e2].len) = "Ok"
            /\ accounts[e1].esc.maker = accounts[e2].esc.maker
            /\ accounts[e1].esc.seed = accounts[e2].esc.seed)
               => (/\ e1 = e2
                   /\ e1 = EscrowPda(accounts[e1].esc.maker,
                                     accounts[e1].esc.seed).addr)

\* C12 happens: a valid Make names the maker and seed of a record that is
\* open and is turned down by the system program.
C12_Witness ==
    /\ last.op = "Make"
    /\ last.args.escrow = EscrowPda(last.args.maker, last.args.seed).addr
    /\ last.pre[last.args.escrow].esc.maker = last.args.maker
    /\ last.pre[last.args.escrow].esc.seed = last.args.seed
    /\ ProgramAccountCheck(last.pre[last.args.escrow].owner,
                           last.pre[last.args.escrow].len) = "Ok"
    /\ last.result = "AccountAlreadyInUse"
    /\ accounts = last.pre

(* ------------------------- order of the checks ------------------------- *)
\* C13 as stated: an invocation that one of the handler's own validations
\* rejects (account count, owner, shape, holding-account address, payload,
\* record address comparison) had issued no creation, transfer or closing
\* call when it was rejected.
C13_Original ==
    (/\ last.op \in {"Make", "Take", "Refund"}
     /\ last.result \in {"NotEnoughAccountKeys", "EscrowError::InvalidOwner",
                         "EscrowError::InvalidAccountData",
                         "EscrowError::InvalidAddress",
                         "InvalidInstructionData", "InvalidAccountOwner"})
        => ~last.effects

\* C13: an invocation that fails the validation of its account list (and,
\* for Make, of its payload) had issued no creation, transfer or closing
\* call; the checks made later (the record address comparison of Take and
\* Refund, the load of the fresh record in Make) run after the creation
\* calls; and whatever check fails, no account is changed once the
\* invocation is over.
C13_AccountChecksPrecedeEffects ==
    /\ (last.op = "Make"
        /\ (\/ MakeAccountsTryFrom(last.pre, last.args) # "Ok"
            \/ MakeInstructionDataTryFrom(last.args.data_len,
                                          last.args.amount) # "Ok"))
           => ~last.effects
    /\ (last.op = "Take" /\ TakeAccountsTryFrom(last.pre, last.args) # "Ok")
           => ~last.effects
    /\ (last.op = "Refund" /\ RefundAccountsTryFrom(last.pre, last.args) # "Ok")
           => ~last.effects
    /\ (last.op \in {"Make", "Take", "Refund"} /\ last.result # "Ok")
           => accounts = last.pre

\* C13 happens: a Refund is rejected by the record address comparison after
\* it had created the maker's holding account, and the creation is undone.
C13_Witness ==
    /\ last.op = "Refund"
    /\ last.result = "InvalidAccountOwner"
    /\ last.effects
    /\ ~IsTokenAccount(last.pre[last.args.maker_ata_a])
    /\ accounts = last.pre

\* C14: each handler rejects a list of any other length than the one fixed
\* for it with NotEnoughAccountKeys, before any validator runs and before
\* any call is issued, and does not reject at this gate a list of exactly
\* the accounts the operation names (8 for Make, 11 for Take, 7 for Refund).
C14_AccountCountGate ==
    LET fixed == IF last.op = "Make" THEN MAKE_ACCOUNTS
                 ELSE IF last.op = "Take" THEN TAKE_ACCOUNTS
                 ELSE REFUND_ACCOUNTS
        roles == IF last.op = "Make" THEN MAKE_ROLES
                 ELSE IF last.op = "Take" THEN TAKE_ROLES
                 ELSE REFUND_ROLES
    IN  last.op \in {"Make", "Take", "Refund"} =>
            /\ (last.args.n # fixed) =>
                   (last.result = "NotEnoughAccountKeys" /\ ~last.effects)
            /\ (last.args.n = roles) => last.result # "NotEnoughAccountKeys"

(* ------------------------------ validators ----------------------------- *)
\* C15: MintInterface::check returns Ok for an account of the token program
\* of exactly the mint length, and for an account of the Token-2022 program
\* that has exactly the mint length or the mint discriminator at offset 165;
\* it returns InvalidAccountData for a Token-2022 account with another
\* discriminator there or with a length that is neither the mint length nor
\* enough to hold offset 165, and for a token-program account of another
\* length, and InvalidOwner for an account of neither program.
C15_MintDualFormat ==
    last.op = "MintCheck" =>
        LET m == last.args
            has165 == m.len > TOKEN_2022_ACCOUNT_DISCRIMINATOR_OFFSET
        IN  last.result =
                (IF m.owner = TOKEN_ID
                 THEN IF m.len = MINT_LEN THEN "Ok"
                      ELSE "EscrowError::InvalidAccountData"
                 ELSE IF m.owner = TOKEN_2022_PROGRAM_ID
                 THEN IF m.len = MINT_LEN THEN "Ok"
                      ELSE IF has165 /\ m.byte165 = TOKEN_2022_MINT_DISCRIMINATOR
                      THEN "Ok"
                      ELSE "EscrowError::InvalidAccountData"
                 ELSE "EscrowError::InvalidOwner")

\* C17: the payload of Make parses if and only if it has exactly 24 bytes
\* and one of the bytes 16..24 (the amount) is not zero; seed and receive are
\* free, and the three values decoded are those whose little-endian
\* encodings are the bytes 0..8, 8..16 and 16..24 in that order.
C17_MakePayloadAcceptance ==
    last.op = "MakeData" =>
        LET d == last.args.data
        IN  /\ (last.result = "Ok")
                   <=> (/\ Len(d) = 24
                        /\ \E i \in 17..24 : d[i] # 0)
            /\ (last.result # "Ok") => last.result = "InvalidInstructionData"
            /\ (last.result = "Ok") =>
                   (/\ d = U64LeBytes(last.decoded.seed)
                           \o U64LeBytes(last.decoded.receive)
                           \o U64LeBytes(last.decoded.amount)
                    /\ last.decoded.amount > 0)

\* C17 happens: a payload with a two-byte seed, receive 0 and a two-byte
\* amount is accepted.
C17_Witness ==
    /\ last.op = "MakeData"
    /\ last.result = "Ok"
    /\ last.decoded.seed > 255
    /\ last.decoded.receive = 0
    /\ last.decoded.amount > 256
    /\ last.decoded.amount # last.decoded.seed

(* ------------------------------ taxonomy ------------------------------- *)
\* C16: every validation rejection carries the code of its cause: a wrong
\* account count gives NotEnoughAccountKeys, a missing signature of the
\* maker or taker gives MissingRequiredSignature, and a record address that
\* differs from the one Take or Refund re-derives gives the same
\* InvalidAddress code that a holding account differing from its derived
\* address gives.
C16_ErrorTaxonomy ==
    LET a == last.args
        pre == last.pre
        fixed == IF last.op = "Make" THEN MAKE_ACCOUNTS
                 ELSE IF last.op = "Take" THEN TAKE_ACCOUNTS
                 ELSE REFUND_ACCOUNTS
    IN  /\ last.op \in {"Make", "Take", "Refund"} =>
               /\ (a.n # fixed) => last.result = "NotEnoughAccountKeys"
               /\ (a.n = fixed /\ ~a.signed)
                      => last.result = "MissingRequiredSignature"
        /\ last.op = "Refund" =>
               LET esc == pre[a.escrow].esc
                   d == RefundEscrowAddress(a.maker, esc.seed, esc.bump)
                   c1 == AssociatedTokenAccountInitIfNeeded(pre, a.maker_ata_a,
                             a.mint_a, a.maker, a.maker, a.token_program,
                             TxSigners(a.maker, a.signed))
               IN  (/\ RefundAccountsTryFrom(pre, a) = "Ok"
                    /\ c1.err = "Ok"
                    /\ (~d.ok \/ d.addr # a.escrow))
                       => last.result = "EscrowError::InvalidAddress"
        /\ last.op = "Take" =>
               LET esc == pre[a.escrow].esc
                   c1 == AssociatedTokenAccountInitIfNeeded(pre, a.taker_ata_a,
                             a.mint_a, a.taker, a.taker, a.token_program,
                             TxSigners(a.taker, a.signed))
                   c2 == AssociatedTokenAccountInitIfNeeded(c1.acc, a.maker_ata_b,
                             a.mint_b, a.taker, a.maker, a.token_program,
                             TxSigners(a.taker, a.signed))
               IN  (/\ TakeAccountsTryFrom(pre, a) = "Ok"
                    /\ c1.err = "Ok"
                    /\ c2.err = "Ok"
                    /\ TakeEscrowAddress(a.maker, esc.seed, esc.bump) # a.escrow)
                       => last.result = "EscrowError::InvalidAddress"

C19_OnlyMakerRefunds ==
    last.op = "Refund" =>
        LET a == last.args
            pre == last.pre
            esc == pre[a.escrow].esc
            vault == Ata(a.escrow, esc.mint_a)
        IN  /\ (last.result = "Ok") =>
                   /\ a.signed
                   /\ a.maker = esc.maker
                   /\ a.escrow = EscrowPda(a.maker, esc.seed).addr
            /\ (pre[a.escrow].owner = ID /\ (a.maker # esc.maker \/ ~a.signed)) =>
                   /\ last.result # "Ok"
                   /\ accounts[a.escrow] = pre[a.escrow]
                   /\ accounts[a.escrow].owner = ID
                   /\ accounts[vault] = pre[vault]
                   /\ IsTokenAccount(accounts[vault])
                   /\ accounts = pre

\* C19 happens: another wallet signs a Refund of the maker's record, naming
\* the record's own vault, at a time the vault holds the deposit; the Refund
\* fails and the deposit is still in the vault.
C19_Witness ==
    /\ last.op = "Refund"
    /\ last.args.signed
    /\ last.args.maker = Bob
    /\ last.pre[last.args.escrow].esc.maker = Alice
    /\ last.args.vault = Ata(last.args.escrow, MintA)
    /\ last.result # "Ok"
    /\ accounts[last.args.escrow].owner = ID
    /\ accounts[last.args.vault].tok.amount = last.deposit
    /\ last.deposit > 0

(* ------------------------- the record's address ------------------------ *)
\* C20: every record that exists sits at the address derived from the tag,
\* its stored maker and its stored seed under the program id, and stores the
\* bump of that derivation; its vault, the holding account derived from the
\* record address and the stored mint_a under the token program, exists, is
\* owned by the record and holds mint_a.  A Make that succeeds leaves at the
\* derived address a record with the maker, seed, mints and receive it was
\* given; no later invocation changes a record that stays; and a Make
\* naming any other address as the record fails.
C20_RecordAddressInvariant ==
    /\ \A e \in EscrowAddrs :
           accounts[e].owner = ID =>
               LET esc == accounts[e].esc
                   vault == accounts[Ata(e, esc.mint_a)]
               IN  /\ EscrowPda(esc.maker, esc.seed).addr = e
                   /\ EscrowPda(esc.maker, esc.seed).bump = esc.bump
                   /\ IsTokenAccount(vault)
                   /\ vault.tok.owner = e
                   /\ vault.tok.mint = esc.mint_a
                   /\ (last.pre[e].owner = ID
                       /\ ~(last.op = "Make" /\ last.result = "Ok"
                            /\ last.args.escrow = e))
                          => esc = last.pre[e].esc
    /\ last.op = "Make" =>
           LET a == last.args
               esc == accounts[a.escrow].esc
           IN  /\ (last.result = "Ok") =>
                      /\ a.escrow = EscrowPda(a.maker, a.seed).addr
                      /\ a.vault = Ata(a.escrow, a.mint_a)
                      /\ accounts[a.escrow].owner = ID
                      /\ esc.maker = a.maker
                      /\ esc.seed = a.seed
                      /\ esc.mint_a = a.mint_a
                      /\ esc.mint_b = a.mint_b
                      /\ esc.receive = a.receive
               /\ (a.escrow # EscrowPda(a.maker, a.seed).addr) =>
                      /\ last.result # "Ok"
                      /\ accounts = last.pre

\* C20 happens: a Make succeeds whose bump is not the first one tried and
\* whose receive differs from the amount deposited, and the record is there
\* with the values given.
C20_Witness ==
    /\ last.op = "Make"
    /\ last.result = "Ok"
    /\ accounts[last.args.escrow].owner = ID
    /\ accounts[last.args.escrow].esc.bump # U8_MAX
    /\ accounts[last.args.escrow].esc.receive # last.args.amount
    /\ accounts[last.args.escrow].esc.mint_b = MintB
    /\ accounts[last.args.vault].tok.owner = last.args.escrow

(* --------------------------- bounded reads ----------------------------- *)
\* C21: for every owner and every data length, MintInterface::check and
\* TokenAccountInterface::check index the data at offset 165 only when the
\* data is longer than 165 bytes, so every input gives Ok or one of the
\* typed errors and none aborts on an access past the end.
C21_NoOutOfBoundsRead ==
    last.op \in {"MintCheck", "TokenAccountCheck"} =>
        /\ last.reads165 => last.args.len > TOKEN_2022_ACCOUNT_DISCRIMINATOR_OFFSET
        /\ last.result \in {"Ok", "EscrowError::InvalidOwner",
                            "EscrowError::InvalidAccountData"}

(* ------------------------- borrows and close --------------------------- *)
\* C22: in Take and in Refund no borrow of the record is outstanding when
\* ProgramAccount::close takes its exclusive borrow of it; no handler makes
\* a collaborator call passing an account of which it holds a conflicting
\* borrow (any borrow of a writable account, an exclusive borrow of a
\* read-only one); and when a handler has returned, with Ok or with an
\* error from any step, no borrow it took is left.
C22_BorrowDiscipline ==
    last.op = "Step" =>
        /\ (last.result = "Running") =>
               LET ins == Steps(last.args.handler, last.args.t22)[last.pc]
               IN  /\ (ins.k = "borrow_mut" /\ ins.g = "close")
                          => ~Borrowed(last.guards, ins.acct)
                   /\ (ins.k = "cpi")
                          => ~CpiConflict(last.guards, ins.wr, ins.rd)
        /\ (last.result \in {"Ok", "Err"}) => last.guards = {}

\* C22 happens: a Take has held the record borrowed across its collaborator
\* calls and stands at the exclusive borrow of close.
C22_Witness ==
    /\ last.op = "Step"
    /\ last.args.handler = "Take"
    /\ last.result = "Running"
    /\ Steps("Take", last.args.t22)[last.pc].k = "borrow_mut"
    /\ Steps("Take", last.args.t22)[last.pc - 1] = Drop("data")
    /\ last.guards = {}

\* C23: ProgramAccount::close writes the sentinel to byte 0, then credits
\* the whole backing value of the record to the destination, then shrinks
\* the record to one byte, then closes it; from the sentinel on, the record
\* is either full-size with the sentinel in byte 0 or at most one byte
\* long, and after the last step it is empty with no backing value.
C23_CloseStepOrder ==
    last.op = "Step" =>
        /\ last.done
               = SubSeq(<<"sentinel", "credit", "resize", "close">>, 1, Len(last.done))
        /\ (last.done # <<>>) =>
               \/ last.rec.len = EscrowLEN /\ last.rec.sentinel
               \/ last.rec.len <= 1
        /\ (Len(last.done) >= 2) =>
               last.dest = last.dest0 + MinimumBalance(EscrowLEN)
        /\ (Len(last.done) = 4) => (last.rec.len = 0 /\ last.rec.lamports = 0)

\* C23 happens: a close is between the credit and the shrinking, the record
\* still full-size and marked, the destination already credited.
C23_Witness ==
    /\ last.op = "Step"
    /\ last.done = <<"sentinel", "credit">>
    /\ last.rec.len = EscrowLEN
    /\ last.rec.sentinel
    /\ last.dest > last.dest0

(* --------------------------- backing value ----------------------------- *)
\* C24: a successful Refund credits the backing value of the vault and of
\* the record to the maker; a successful Take credits the vault's to the
\* maker and the record's to the taker (who has paid for the holding
\* accounts created on the way); either leaves vault and record with no
\* backing value, and no invocation changes the backing value summed over
\* all accounts.
C24_BackingValueDestinations ==
    LET a == last.args
        pre == last.pre
        RECURSIVE Total(_, _)
        Total(acc, S) ==
            IF S = {} THEN 0
            ELSE LET x == CHOOSE y \in S : TRUE
                 IN  acc[x].lamports + Total(acc, S \ {x})
        paid(x) == accounts[x].lamports - pre[x].lamports
    IN  /\ (last.op = "Refund" /\ last.result = "Ok") =>
               /\ pre[a.escrow].lamports > 0
               /\ pre[a.vault].lamports > 0
               /\ accounts[a.escrow].lamports = 0
               /\ accounts[a.vault].lamports = 0
               /\ accounts[a.maker].lamports + paid(a.maker_ata_a) =
                      pre[a.maker].lamports + pre[a.vault].lamports
                          + pre[a.escrow].lamports
        /\ (last.op = "Take" /\ last.result = "Ok" /\ a.maker # a.taker) =>
               /\ accounts[a.escrow].lamports = 0
               /\ accounts[a.vault].lamports = 0
               /\ accounts[a.maker].lamports =
                      pre[a.maker].lamports + pre[a.vault].lamports
               /\ accounts[a.taker].lamports + paid(a.taker_ata_a)
                      + paid(a.maker_ata_b) =
                      pre[a.taker].lamports + pre[a.escrow].lamports
        /\ last.op \in {"Make", "Take", "Refund"} =>
               Total(accounts, Addrs) = Total(pre, Addrs)

\* C24 happens: a Refund succeeds and the maker's backing value is up by
\* what the record and the vault were backed with.
C24_Witness ==
    /\ last.op = "Refund"
    /\ last.result = "Ok"
    /\ accounts[last.args.maker].lamports =
           last.pre[last.args.maker].lamports
               + MinimumBalance(EscrowLEN) + MinimumBalance(TOKEN_ACCOUNT_LEN)
    /\ accounts[last.args.escrow].lamports = 0

(* --------------------------- init if needed ---------------------------- *)
\* C25: init_if_needed on an account that passes AssociatedTokenAccount::check
\* for the owner, mint and token program issues no call, returns Ok and
\* changes nothing; on an account that fails the check, for whatever reason,
\* it issues Create once and its outcome is that of Create; and called again
\* with the same accounts it changes nothing more.
C25_InitIfNeededIdempotent ==
    last.op = "InitIfNeeded" =>
        LET a == last.args
            pre == last.pre
            chk == AssociatedTokenAccountCheck(pre, a.account, a.owner, a.mint,
                                               TOKEN_ID)
            create == AtaCreate(pre, a.payer, a.account, a.owner, a.mint,
                                TOKEN_ID, {a.payer})
            again == AssociatedTokenAccountInitIfNeeded(accounts, a.account,
                         a.mint, a.payer, a.owner, TOKEN_ID, {a.payer})
        IN  /\ (chk = "Ok") =>
                   (last.calls = 0 /\ last.result = "Ok" /\ accounts = pre)
            /\ (chk # "Ok") =>
                   /\ last.calls = 1
                   /\ last.result = create.err
                   /\ (create.err = "Ok") => accounts = create.acc
                   /\ (create.err # "Ok") => accounts = pre
            /\ again.acc = accounts
            /\ again.err = last.result

\* C25 happens: init_if_needed creates a holding account that was missing,
\* and on the accounts it leaves the check passes and a second call would
\* issue nothing.
C25_Witness ==
    /\ last.op = "InitIfNeeded"
    /\ last.calls = 1
    /\ last.result = "Ok"
    /\ ~IsTokenAccount(last.pre[last.args.account])
    /\ IsTokenAccount(accounts[last.args.account])
    /\ InitIfNeededCalls(accounts, last.args.account, last.args.mint,
                         last.args.owner, TOKEN_ID) = 0

(* ------------------------- asset conservation -------------------------- *)
\* C26: after any sequence of invocations the quantity of asset A summed
\* over the holding accounts of the maker, of the taker and of every record
\* (the vaults) is what it was at the start, and so is the quantity of asset
\* B; and a rejected Make, Take or Refund leaves every balance as it was.
C26_AssetConservation ==
    LET RECURSIVE Held(_, _)
        Held(m, S) ==
            IF S = {} THEN 0
            ELSE LET x == CHOOSE y \in S : TRUE
                 IN  (IF IsTokenAccount(accounts[x]) /\ accounts[x].tok.mint = m
                      THEN accounts[x].tok.amount ELSE 0)
                     + Held(m, S \ {x})
    IN  /\ Held(MintA, AtaAddrs) = MaxAmount
        /\ Held(MintB, AtaAddrs) = MaxAmount
        /\ \A x \in Addrs \ AtaAddrs : ~IsTokenAccount(accounts[x])
        /\ (last.op \in {"Make", "Take", "Refund"} /\ last.result # "Ok") =>
               \A x \in Addrs : accounts[x].tok = last.pre[x].tok

\* C26 happens: a Make has moved part of the maker's asset A into a vault,
\* and an invocation on that record has then been rejected with the vault
\* still holding it.
C26_Witness ==
    /\ last.op \in {"Take", "Refund"}
    /\ last.result # "Ok"
    /\ IsTokenAccount(accounts[last.args.vault])
    /\ accounts[last.args.vault].tok.owner \in EscrowAddrs
    /\ accounts[last.args.vault].tok.amount > 0
    /\ accounts[Ata(Alice, MintA)].tok.amount
           = MaxAmount - accounts[last.args.vault].tok.amount

====
